---- MODULE Spec2Model ----
(***************************************************************************)
(* GeoRoute prototype (src/georoute_react_prototype.jsx): the round-robin  *)
(* dispatch of submitRequest, the React state it reads and writes, and     *)
(* the shortest-path engine (MinHeap, dijkstra) run on the regional graphs.*)
(*                                                                         *)
(* Three specifications:                                                   *)
(*   Spec        the App component: UI events, submitRequest, the timer    *)
(*               that resumes a suspended request, React's re-render.      *)
(*   EngineSpec  dijkstra, one loop iteration per step, on every graph of  *)
(*               a bounded family and on the three regional graphs.        *)
(*   HeapSpec    one MinHeap under every sequence of push and pop.         *)
(***************************************************************************)
EXTENDS Integers, Sequences, FiniteSets, TLC

\* ------------------------------------------------------------------ bounds

\* Largest edge cost of a generated graph (costs are 0..MaxCost).
MaxCost == 2
\* Largest number of edges of a generated graph.
MaxEdges == 2
\* Most submitRequest calls that pass the endpoint check in one behaviour.
MaxRequests == 3
\* Most UI events other than a dispatched submit (typing, clicks, presets,
\* slider moves, clears, rejected submits) in one behaviour.
MaxUiEvents == 2
\* Most entries a MinHeap holds under HeapSpec, and their largest priority
\* (priorities are 0..MaxPriority).
MaxHeapLen == 4
MaxPriority == 2

\* ------------------------------------------------------- JavaScript values

\* JS Infinity and undefined, as numbers outside the range of any distance.
Infinity == -1
Undefined == -2
\* JS null / undefined where a node id is expected (both are falsy).
NoNode == "null"

\* a < b and a > b on JS numbers: false whenever an operand is undefined (NaN).
NumLT(a, b) ==
    IF a = Undefined \/ b = Undefined THEN FALSE
    ELSE IF a = Infinity THEN FALSE
    ELSE IF b = Infinity THEN TRUE
    ELSE a < b

NumGT(a, b) == NumLT(b, a)

\* obj[key]: undefined when the object has no such key.
Get(obj, key, missing) == IF key \in DOMAIN obj THEN obj[key] ELSE missing

\* obj[key] = val: adds the key when the object has none.
Put(obj, key, val) ==
    [k \in DOMAIN obj \cup {key} |-> IF k = key THEN val ELSE obj[k]]

\* ------------------------------------------------------------------ MinHeap
\* The heap is the array this.heap; entry i of the array is element i+1 of
\* the sequence. An entry is <<priority, node>>.

Swap(heap, i, j) == [heap EXCEPT ![i] = heap[j], ![j] = heap[i]]

RECURSIVE BubbleUp(_, _)
BubbleUp(heap, k) ==
    IF k <= 1 THEN heap
    ELSE LET parentK == k \div 2 IN
         IF heap[k][1] >= heap[parentK][1] THEN heap
         ELSE BubbleUp(Swap(heap, k, parentK), parentK)

RECURSIVE SinkDown(_, _)
SinkDown(heap, k) ==
    LET length == Len(heap)
        child2K == 2 * k + 1
        child1K == 2 * k
        el == heap[k]
        swap1 == IF child1K <= length /\ heap[child1K][1] < el[1]
                 THEN child1K ELSE 0
        swap == IF child2K <= length
                   /\ (IF swap1 = 0 THEN el[1] ELSE heap[child1K][1]) > heap[child2K][1]
                THEN child2K ELSE swap1
    IN IF swap = 0 THEN heap ELSE SinkDown(Swap(heap, k, swap), swap)

HeapPush(heap, item) == BubbleUp(Append(heap, item), Len(heap) + 1)

\* pop() returns null on an empty heap, this.heap[0] otherwise.
NoEntry == <<>>
HeapPopTop(heap) == IF Len(heap) = 0 THEN NoEntry ELSE heap[1]

\* Mutant: this._sinkDown(0) is left out.
HeapPopRestNoSink(heap) ==
    LET end == heap[Len(heap)]
        rest == SubSeq(heap, 1, Len(heap) - 1)
    IN IF Len(rest) = 0 THEN rest
       ELSE [rest EXCEPT ![1] = end]

\* pop() on a non-empty heap: the heap it leaves (the entry returned is heap[1]).
HeapPopRest(heap) ==
    LET end == heap[Len(heap)]
        rest == SubSeq(heap, 1, Len(heap) - 1)
    IN IF Len(rest) = 0 THEN rest
       ELSE SinkDown([rest EXCEPT ![1] = end], 1)

\* ----------------------------------------------------------------- dijkstra
\* The local state of one call: dist, prev, pq (the heap array) and where the
\* while (true) loop stands: "loop", "exhausted" (pop returned null),
\* "reached" (u === dst), "threw" (graph[u] is not iterable).

\* Mutant: dist[src] = 0 is left out.
DijkstraStartNoSource(g, s) ==
    [dist |-> [n \in DOMAIN g |-> Infinity],
     prev |-> [n \in DOMAIN g |-> NoNode],
     pq |-> HeapPush(<<>>, <<0, s>>),
     at |-> "loop"]

DijkstraStart(g, s) ==
    [dist |-> Put([n \in DOMAIN g |-> Infinity], s, 0),
     prev |-> [n \in DOMAIN g |-> NoNode],
     pq |-> HeapPush(<<>>, <<0, s>>),
     at |-> "loop"]

\* Mutant: const alt = edge.cost, the distance of u is not added.
RelaxCostOnly(st, edge, u, d) ==
    LET v == edge.to
        alt == edge.cost
    IN IF NumLT(alt, Get(st.dist, v, Undefined))
       THEN [st EXCEPT !.dist = Put(st.dist, v, alt),
                       !.prev = Put(st.prev, v, u),
                       !.pq = HeapPush(st.pq, <<alt, v>>)]
       ELSE st

\* Mutant: if (alt <= dist[v]), an equal distance is pushed again.
RelaxNotStrict(st, edge, u, d) ==
    LET v == edge.to
        alt == d + edge.cost
    IN IF ~NumGT(alt, Get(st.dist, v, Undefined))
       THEN [st EXCEPT !.dist = Put(st.dist, v, alt),
                       !.prev = Put(st.prev, v, u),
                       !.pq = HeapPush(st.pq, <<alt, v>>)]
       ELSE st

\* The body of for (const edge of graph[u]) for one edge.
Relax(st, edge, u, d) ==
    LET v == edge.to
        alt == d + edge.cost
    IN IF NumLT(alt, Get(st.dist, v, Undefined))
       THEN [st EXCEPT !.dist = Put(st.dist, v, alt),
                       !.prev = Put(st.prev, v, u),
                       !.pq = HeapPush(st.pq, <<alt, v>>)]
       ELSE st

\* for (const edge of graph[u]) from edge i on.
RECURSIVE RelaxEdges(_, _, _, _, _)
RelaxEdges(st, edges, i, u, d) ==
    IF i > Len(edges) THEN st
    ELSE RelaxEdges(Relax(st, edges[i], u, d), edges, i + 1, u, d)

\* Mutant: if (u === dst) break is left out.
DijkstraIterNoEarlyExit(g, t, st) ==
    IF Len(st.pq) = 0 THEN [st EXCEPT !.at = "exhausted"]
    ELSE LET d == st.pq[1][1]
             u == st.pq[1][2]
             popped == [st EXCEPT !.pq = HeapPopRest(st.pq)]
         IN IF NumGT(d, Get(st.dist, u, Undefined)) THEN popped
            ELSE IF u \notin DOMAIN g THEN [popped EXCEPT !.at = "threw"]
            ELSE RelaxEdges(popped, g[u], 1, u, d)

\* One iteration of while (true).
DijkstraIter(g, t, st) ==
    IF Len(st.pq) = 0 THEN [st EXCEPT !.at = "exhausted"]
    ELSE LET d == st.pq[1][1]
             u == st.pq[1][2]
             popped == [st EXCEPT !.pq = HeapPopRest(st.pq)]
         IN IF NumGT(d, Get(st.dist, u, Undefined)) THEN popped
            ELSE IF u = t THEN [popped EXCEPT !.at = "reached"]
            ELSE IF u \notin DOMAIN g THEN [popped EXCEPT !.at = "threw"]
            ELSE RelaxEdges(popped, g[u], 1, u, d)

\* let u = dst; while (u) { path.unshift(u); u = prev[u] }
RECURSIVE BuildPath(_, _, _)
BuildPath(prevMap, u, path) ==
    IF u = NoNode THEN path
    ELSE BuildPath(prevMap, Get(prevMap, u, NoNode), <<u>> \o path)

\* Mutant: if (dist[dst] === Infinity) return null is left out.
DijkstraReturnNoNull(t, st) ==
    IF st.at = "threw" THEN [kind |-> "threw", path |-> <<>>, distance |-> Undefined]
    ELSE [kind |-> "found",
          path |-> BuildPath(st.prev, t, <<>>),
          distance |-> Get(st.dist, t, Undefined)]

\* What the call returns once the loop has ended: null, { path, distance },
\* or the TypeError thrown inside the loop.
DijkstraReturn(t, st) ==
    IF st.at = "threw" THEN [kind |-> "threw", path |-> <<>>, distance |-> Undefined]
    ELSE IF Get(st.dist, t, Undefined) = Infinity
         THEN [kind |-> "null", path |-> <<>>, distance |-> Infinity]
         ELSE [kind |-> "found",
               path |-> BuildPath(st.prev, t, <<>>),
               distance |-> Get(st.dist, t, Undefined)]

RECURSIVE DijkstraLoop(_, _, _)
DijkstraLoop(g, t, st) ==
    IF st.at # "loop" THEN st ELSE DijkstraLoop(g, t, DijkstraIter(g, t, st))

dijkstra(g, s, t) == DijkstraReturn(t, DijkstraLoop(g, t, DijkstraStart(g, s)))

\* --------------------------------------------------------- REGIONAL_GRAPHS

Edge(to, cost) == [to |-> to, cost |-> cost]

REGIONAL_GRAPHS == <<
    [A |-> <<Edge("B", 1), Edge("C", 2)>>,
     B |-> <<Edge("A", 1), Edge("D", 2)>>,
     C |-> <<Edge("A", 2), Edge("F", 3)>>,
     D |-> <<Edge("B", 2), Edge("E", 2)>>,
     E |-> <<Edge("D", 2), Edge("G", 3)>>,
     F |-> <<Edge("C", 3), Edge("G", 1)>>,
     G |-> <<Edge("F", 1), Edge("E", 3)>>],
    [A |-> <<Edge("B", 1), Edge("C", 3)>>,
     B |-> <<Edge("A", 1), Edge("D", 1)>>,
     C |-> <<Edge("A", 3), Edge("F", 2)>>,
     D |-> <<Edge("B", 1), Edge("E", 4)>>,
     E |-> <<Edge("D", 4), Edge("G", 1)>>,
     F |-> <<Edge("C", 2), Edge("G", 2)>>,
     G |-> <<Edge("F", 2), Edge("E", 1)>>],
    [A |-> <<Edge("C", 2)>>,
     C |-> <<Edge("A", 2), Edge("F", 2)>>,
     F |-> <<Edge("C", 2), Edge("G", 1)>>,
     G |-> <<Edge("F", 1)>>,
     B |-> <<Edge("D", 2)>>,
     D |-> <<Edge("B", 2)>>,
     E |-> <<>>] >>

\* Server numbers are 1..BackendCount; serverIndex is 0..BackendCount-1.
BackendCount == 3

\* NODE_COORDS has an entry for exactly these ids.
NODE_COORDS == {"A", "B", "C", "D", "E", "F", "G"}

\* ------------------------------------------------------------------- state

VARIABLES
    \* React state of App (the value the next render will show); logs is
    \* kept as the number of lines it holds.
    fromNode, toNode, roundRobinState, simulateFailureRate, logs,
    \* The values captured by the closures of the last render: submitRequest
    \* and the other handlers read these, not the state above.
    rendered,
    \* viewerRef.current is a Cesium viewer (TRUE) or null (FALSE).
    viewer,
    \* The submitRequest calls that passed the endpoint check, in call order.
    requests,
    \* The submitRequest calls that ended at the endpoint check ("Select both
    \* FROM and TO nodes before submitting."), counted.
    rejected,
    \* How many UI events other than a dispatched submit have been taken.
    uiEvents,
    \* One call of dijkstra under EngineSpec: its arguments, its locals, the
    \* position of its loop and what it returned.
    graph, src, dst, dist, prev, pq, at, result,
    \* The entries that call has popped so far, in order, each with the
    \* branch the loop took on it: "stale", "reached", "threw" or "relax".
    pops,
    \* One MinHeap under HeapSpec: its array (this.heap), what its last
    \* pop() returned, and how many times each entry has been pushed and not
    \* yet popped.
    minHeap, top, held

appVars == <<fromNode, toNode, roundRobinState, simulateFailureRate, logs,
             rendered, viewer, requests, rejected, uiEvents>>
dijkstraVars == <<graph, src, dst, dist, prev, pq, at, result, pops>>
heapVars == <<minHeap, top, held>>
engineVars == <<graph, src, dst, dist, prev, pq, at, result, pops, minHeap, top, held>>
vars == <<fromNode, toNode, roundRobinState, simulateFailureRate, logs,
          rendered, viewer, requests, rejected, uiEvents,
          graph, src, dst, dist, prev, pq, at, result, pops, minHeap, top, held>>

NoResult == [kind |-> "pending", path |-> <<>>, distance |-> Undefined]

\* ------------------------------------------------------------- EngineSpec

\* Node ids of the generated graphs, and an id that is a key of no graph.
GenNodes == {"A", "B", "C"}
UnknownId == "Z"

\* An edge of a generated graph ends at a key and costs 0..MaxCost; an edge
\* list is any sequence of at most k such edges (parallel edges, self-loops
\* and zero costs included, in every order).
GenEdges == {Edge(t, c) : t \in GenNodes, c \in 0..MaxCost}
EdgeLists(k) == UNION {[1..j -> GenEdges] : j \in 0..k}

locals == [dist |-> dist, prev |-> prev, pq |-> pq, at |-> at]

\* const [d, u] = pq.pop(), noted with the branch taken.
Popped(branch) ==
    pops' = Append(pops, [d |-> pq[1][1], u |-> pq[1][2], branch |-> branch])

SetLocals(st) ==
    /\ dist' = st.dist
    /\ prev' = st.prev
    /\ pq' = st.pq
    /\ at' = st.at

\* One iteration of the loop, by the branch it takes.
EngineExhausted ==
    /\ at = "loop" /\ Len(pq) = 0
    /\ SetLocals(DijkstraIter(graph, dst, locals))
    /\ UNCHANGED <<graph, src, dst, result, pops>> /\ UNCHANGED appVars /\ UNCHANGED heapVars

EngineStale ==
    /\ at = "loop" /\ Len(pq) > 0
    /\ NumGT(pq[1][1], Get(dist, pq[1][2], Undefined))
    /\ SetLocals(DijkstraIter(graph, dst, locals))
    /\ Popped("stale")
    /\ UNCHANGED <<graph, src, dst, result>> /\ UNCHANGED appVars /\ UNCHANGED heapVars

EngineReached ==
    /\ at = "loop" /\ Len(pq) > 0
    /\ ~NumGT(pq[1][1], Get(dist, pq[1][2], Undefined))
    /\ pq[1][2] = dst
    /\ SetLocals(DijkstraIter(graph, dst, locals))
    /\ Popped("reached")
    /\ UNCHANGED <<graph, src, dst, result>> /\ UNCHANGED appVars /\ UNCHANGED heapVars

EngineThrow ==
    /\ at = "loop" /\ Len(pq) > 0
    /\ ~NumGT(pq[1][1], Get(dist, pq[1][2], Undefined))
    /\ pq[1][2] # dst /\ pq[1][2] \notin DOMAIN graph
    /\ SetLocals(DijkstraIter(graph, dst, locals))
    /\ Popped("threw")
    /\ UNCHANGED <<graph, src, dst, result>> /\ UNCHANGED appVars /\ UNCHANGED heapVars

\* Mutant: the edge list of u is emptied while it is iterated (shift()).
EngineRelaxConsumesEdges ==
    /\ at = "loop" /\ Len(pq) > 0
    /\ ~NumGT(pq[1][1], Get(dist, pq[1][2], Undefined))
    /\ pq[1][2] # dst /\ pq[1][2] \in DOMAIN graph
    /\ SetLocals(DijkstraIter(graph, dst, locals))
    /\ Popped("relax")
    /\ graph' = [graph EXCEPT ![pq[1][2]] = <<>>]
    /\ UNCHANGED <<src, dst, result>> /\ UNCHANGED appVars /\ UNCHANGED heapVars

EngineRelax ==
    /\ at = "loop" /\ Len(pq) > 0
    /\ ~NumGT(pq[1][1], Get(dist, pq[1][2], Undefined))
    /\ pq[1][2] # dst /\ pq[1][2] \in DOMAIN graph
    /\ SetLocals(DijkstraIter(graph, dst, locals))
    /\ Popped("relax")
    /\ UNCHANGED <<graph, src, dst, result>> /\ UNCHANGED appVars /\ UNCHANGED heapVars

EngineReturn ==
    /\ at \in {"exhausted", "reached", "threw"}
    /\ result' = DijkstraReturn(dst, locals)
    /\ at' = "returned"
    /\ UNCHANGED <<graph, src, dst, dist, prev, pq, pops>> /\ UNCHANGED appVars /\ UNCHANGED heapVars

EngineNext ==
    \/ EngineExhausted
    \/ EngineStale
    \/ EngineReached
    \/ EngineThrow
    \/ EngineRelax
    \/ EngineReturn

\* --------------------------------------------------------------- HeapSpec

\* The entries pushed under HeapSpec: [priority, node].
HeapItems == {<<p, n>> : p \in 0..MaxPriority, n \in {"A", "B"}}

\* held is a set of <<entry, count>> pairs, one for each entry pushed and
\* not yet popped at least once.
HeldCount(h, e) ==
    IF \E x \in h : x[1] = e THEN (CHOOSE x \in h : x[1] = e)[2] ELSE 0

SetHeld(h, e, c) ==
    {x \in h : x[1] # e} \cup (IF c > 0 THEN {<<e, c>>} ELSE {})

\* new MinHeap(): the array is empty and nothing has been popped.
HeapNew ==
    /\ minHeap = <<>>
    /\ top = NoEntry
    /\ held = {}

\* heap.push(item)
HeapDoPush ==
    /\ Len(minHeap) < MaxHeapLen
    /\ \E item \in HeapItems :
          /\ minHeap' = HeapPush(minHeap, item)
          /\ held' = SetHeld(held, item, HeldCount(held, item) + 1)
    /\ UNCHANGED top
    /\ UNCHANGED dijkstraVars /\ UNCHANGED appVars

\* heap.pop()
HeapDoPop ==
    /\ top' = HeapPopTop(minHeap)
    /\ IF Len(minHeap) = 0
       THEN UNCHANGED <<minHeap, held>>
       ELSE /\ minHeap' = HeapPopRest(minHeap)
            /\ held' = SetHeld(held, minHeap[1], HeldCount(held, minHeap[1]) - 1)
    /\ UNCHANGED dijkstraVars /\ UNCHANGED appVars

HeapNext ==
    \/ HeapDoPush
    \/ HeapDoPop

\* -------------------------------------------------------------------- App

\* Slider positions of the failure rate, and a Math.random() draw, both in
\* twentieths: rate r is r/RateScale, draw cell c is the interval
\* [c/RateScale, (c+1)/RateScale), so draw < rate exactly when c < r.
RateScale == 20
RateMax == 18
RateSteps == {0, RateMax}
DrawCells == {9}

\* logs keeps the newest LogCap lines.
LogCap == 50

\* What the user types into the FROM and TO inputs.
TypedFrom == {"z", ""}
TypedTo == {"b", "z", ""}
\* The node markers the user clicks.
ClickedNodes == {"A"}

toUpperCase(s) ==
    IF s = "b" THEN "B" ELSE IF s = "z" THEN "Z" ELSE s

\* !value for a string or null.
Falsy(v) == v = "" \/ v = NoNode

\* The number of lines logs holds after addLog: [entry, ...l].slice(0, 50).
\* The log is kept by its length; what a request logged is kept in the
\* request (outcome).
addLog(l) == IF l + 1 <= LogCap THEN l + 1 ELSE LogCap

Snapshot(f, t, rr, rate) ==
    [fromNode |-> f, toNode |-> t, roundRobinState |-> rr, simulateFailureRate |-> rate]

AppInitial ==
    /\ fromNode = "A"
    /\ toNode = "G"
    /\ roundRobinState = 0
    /\ simulateFailureRate = 0
    /\ logs = 0
    /\ rendered = Snapshot("A", "G", 0, 0)
    /\ requests = <<>>
    /\ rejected = 0
    /\ uiEvents = 0

\* No call of dijkstra is being stepped through.
EngineIdle ==
    /\ graph = <<>>
    /\ src = NoNode
    /\ dst = NoNode
    /\ dist = <<>>
    /\ prev = <<>>
    /\ pq = <<>>
    /\ at = "idle"
    /\ result = NoResult
    /\ pops = <<>>
    /\ HeapNew

Init ==
    /\ AppInitial
    /\ viewer \in BOOLEAN
    /\ EngineIdle

\* dijkstra has just been called (dist, prev and pq are set up, (0, src) is
\* pushed) on a generated graph with at most MaxEdges edges in all, or on a
\* regional graph; src and dst are keys of the graph or the unknown id.
EngineInit ==
    /\ AppInitial
    /\ viewer = TRUE
    /\ \/ /\ \E la \in EdgeLists(MaxEdges) :
               \E lb \in EdgeLists(MaxEdges - Len(la)) :
                 \E lc \in EdgeLists(MaxEdges - Len(la) - Len(lb)) :
                    graph = [A |-> la, B |-> lb, C |-> lc]
          /\ src \in GenNodes \cup {UnknownId}
          /\ dst \in GenNodes \cup {UnknownId}
       \/ /\ \E i \in 1..BackendCount : graph = REGIONAL_GRAPHS[i]
          /\ src \in NODE_COORDS \cup {UnknownId}
          /\ dst \in NODE_COORDS \cup {UnknownId}
    /\ dist = DijkstraStart(graph, src).dist
    /\ prev = DijkstraStart(graph, src).prev
    /\ pq = DijkstraStart(graph, src).pq
    /\ at = "loop"
    /\ result = NoResult
    /\ pops = <<>>
    /\ HeapNew

EngineSpec == EngineInit /\ [][EngineNext]_vars

HeapInit ==
    /\ AppInitial
    /\ viewer = TRUE
    /\ EngineIdle

HeapSpec == HeapInit /\ [][HeapNext]_vars

\* ------------------------------------------------------------ App actions

\* A UI event is taken while fewer than MaxUiEvents have been.
UiEvent ==
    /\ uiEvents < MaxUiEvents
    /\ uiEvents' = uiEvents + 1

\* onChange of the FROM input.
TypeFrom ==
    /\ UiEvent
    /\ \E text \in TypedFrom : fromNode' = toUpperCase(text)
    /\ UNCHANGED <<toNode, roundRobinState, simulateFailureRate, logs, rendered,
                   viewer, requests, rejected>>
    /\ UNCHANGED engineVars

\* onChange of the TO input.
TypeTo ==
    /\ UiEvent
    /\ \E text \in TypedTo : toNode' = toUpperCase(text)
    /\ UNCHANGED <<fromNode, roundRobinState, simulateFailureRate, logs, rendered,
                   viewer, requests, rejected>>
    /\ UNCHANGED engineVars

\* The "Load A->G" button.
Preset ==
    /\ UiEvent
    /\ fromNode' = "A"
    /\ toNode' = "G"
    /\ logs' = addLog(logs)
    /\ UNCHANGED <<roundRobinState, simulateFailureRate, rendered, viewer, requests,
                   rejected>>
    /\ UNCHANGED engineVars

\* LEFT_CLICK on a node marker. The handler is installed by the effect that
\* runs once, so its fromNode and toNode are those of the first render.
MapClick ==
    /\ viewer
    /\ UiEvent
    /\ \E nodeId \in ClickedNodes :
          LET firstFrom == "A"
              firstTo == "G"
          IN IF Falsy(firstFrom) \/ (~Falsy(firstFrom) /\ ~Falsy(firstTo))
             THEN /\ fromNode' = nodeId
                  /\ toNode' = NoNode
                  /\ logs' = addLog(logs)
             ELSE /\ toNode' = nodeId
                  /\ logs' = addLog(logs)
                  /\ UNCHANGED fromNode
    /\ UNCHANGED <<roundRobinState, simulateFailureRate, rendered, viewer, requests,
                   rejected>>
    /\ UNCHANGED engineVars

\* onChange of the failure-rate slider.
SetFailureRate ==
    /\ UiEvent
    /\ \E rate \in RateSteps : simulateFailureRate' = rate
    /\ UNCHANGED <<fromNode, toNode, roundRobinState, logs, rendered, viewer, requests,
                   rejected>>
    /\ UNCHANGED engineVars

\* Mutant: the Clear button also calls setRoundRobinState(0).
ClearResetsCounter ==
    /\ UiEvent
    /\ logs' = addLog(0)
    /\ roundRobinState' = 0
    /\ UNCHANGED <<fromNode, toNode, simulateFailureRate, rendered,
                   viewer, requests, rejected>>
    /\ UNCHANGED engineVars

\* The Clear button: setLogs([]) and then addLog.
Clear ==
    /\ UiEvent
    /\ logs' = addLog(0)
    /\ UNCHANGED <<fromNode, toNode, roundRobinState, simulateFailureRate, rendered,
                   viewer, requests, rejected>>
    /\ UNCHANGED engineVars

\* React renders App again: the handlers now close over the current state.
Render ==
    /\ rendered # Snapshot(fromNode, toNode, roundRobinState, simulateFailureRate)
    /\ rendered' = Snapshot(fromNode, toNode, roundRobinState, simulateFailureRate)
    /\ UNCHANGED <<fromNode, toNode, roundRobinState, simulateFailureRate, logs,
                   viewer, requests, rejected>>
    /\ UNCHANGED <<uiEvents, engineVars>>

\* const willFail = Math.random() < simulateFailureRate
WillFail(draw, rate) == draw < rate

\* const serverIndex = roundRobinState % 3
ServerIndex(counter) == counter % BackendCount

\* Mutant: setRoundRobinState(roundRobinState + 1), from the rendered value.
AdvanceFromRendered(current, seen) == seen + 1

\* setRoundRobinState(s => s+1): the updater runs on the current state.
Advance(current, seen) == current + 1

\* Mutant: if (!fromNode), the TO endpoint is not checked.
MissingFromOnly(f, t) == Falsy(f)

\* if (!fromNode || !toNode)
MissingEndpoint(f, t) == Falsy(f) \/ Falsy(t)

\* submitRequest when an endpoint is missing: one log line, then return.
SubmitRejected ==
    /\ MissingEndpoint(rendered.fromNode, rendered.toNode)
    /\ UiEvent
    /\ logs' = addLog(logs)
    /\ rejected' = rejected + 1
    /\ UNCHANGED <<fromNode, toNode, roundRobinState, simulateFailureRate, rendered,
                   viewer, requests>>
    /\ UNCHANGED engineVars

\* Mutant: a call whose draw fails reports the failure before the await.
SubmitFailsAtOnce ==
    /\ ~MissingEndpoint(rendered.fromNode, rendered.toNode)
    /\ Len(requests) < MaxRequests
    /\ \E draw \in DrawCells :
          LET serverIndex == ServerIndex(rendered.roundRobinState)
              fails == WillFail(draw, rendered.simulateFailureRate) IN
          /\ roundRobinState' = Advance(roundRobinState, rendered.roundRobinState)
          /\ logs' = addLog(logs)
          /\ requests' = Append(requests,
                [from |-> rendered.fromNode,
                 to |-> rendered.toNode,
                 read |-> rendered.roundRobinState,
                 serverIndex |-> serverIndex,
                 draw |-> draw,
                 rate |-> rendered.simulateFailureRate,
                 willFail |-> fails,
                 pc |-> IF fails THEN "done" ELSE "delay",
                 outcome |-> IF fails THEN "BackendFailure" ELSE "none",
                 engineCalls |-> 0,
                 result |-> NoResult])
    /\ UNCHANGED <<fromNode, toNode, simulateFailureRate, rendered, viewer, rejected>>
    /\ UNCHANGED <<uiEvents, engineVars>>

\* submitRequest up to its await: the backend is chosen from the rendered
\* counter, the counter is advanced, the failure draw is made, and the call
\* is suspended in setTimeout.
Submit ==
    /\ ~MissingEndpoint(rendered.fromNode, rendered.toNode)
    /\ Len(requests) < MaxRequests
    /\ \E draw \in DrawCells :
          LET serverIndex == ServerIndex(rendered.roundRobinState) IN
          /\ roundRobinState' = Advance(roundRobinState, rendered.roundRobinState)
          /\ logs' = addLog(logs)
          /\ requests' = Append(requests,
                [from |-> rendered.fromNode,
                 to |-> rendered.toNode,
                 read |-> rendered.roundRobinState,
                 serverIndex |-> serverIndex,
                 draw |-> draw,
                 rate |-> rendered.simulateFailureRate,
                 willFail |-> WillFail(draw, rendered.simulateFailureRate),
                 pc |-> "delay",
                 outcome |-> "none",
                 engineCalls |-> 0,
                 result |-> NoResult])
    /\ UNCHANGED <<fromNode, toNode, simulateFailureRate, rendered, viewer, rejected>>
    /\ UNCHANGED <<uiEvents, engineVars>>

\* dijkstra(REGIONAL_GRAPHS[serverIndex], fromNode, toNode), evaluated once
\* for each server and each pair of ids a request can carry.
RoutingTable ==
    [i \in 1..BackendCount |->
        [s \in NODE_COORDS \cup {UnknownId} |->
            [t \in NODE_COORDS \cup {UnknownId} |->
                dijkstra(REGIONAL_GRAPHS[i], s, t)]]]

Compute(serverIndex, s, t) ==
    IF s \in NODE_COORDS \cup {UnknownId} /\ t \in NODE_COORDS \cup {UnknownId}
    THEN RoutingTable[serverIndex + 1][s][t]
    ELSE dijkstra(REGIONAL_GRAPHS[serverIndex + 1], s, t)

\* The rest of submitRequest for a request whose timer has fired. It ends by
\* returning ("done") or by an uncaught TypeError ("threw").
\* Mutant: after the failure is logged the call picks the next server and
\* waits again.
FailedThenRetried(r) ==
    [req |-> [r EXCEPT !.outcome = "BackendFailure",
                       !.serverIndex = (@ + 1) % BackendCount],
     lines |-> 1]

Failed(r) ==
    [req |-> [r EXCEPT !.pc = "done", !.outcome = "BackendFailure"], lines |-> 1]

\* Mutant: after the delay the server and the endpoints are taken from the
\* current state, not from the values of the call.
ServedFromCurrentState(r) ==
    LET res == Compute(ServerIndex(roundRobinState), fromNode, toNode)
        called == [r EXCEPT !.engineCalls = @ + 1, !.result = res]
    IN IF res.kind = "threw"
       THEN [req |-> [called EXCEPT !.pc = "threw"], lines |-> 0]
       ELSE IF res.kind = "null"
       THEN [req |-> [called EXCEPT !.pc = "done", !.outcome = "NotFound"], lines |-> 1]
       ELSE [req |-> [called EXCEPT !.outcome = "Found", !.pc = "done"], lines |-> 1]

Served(r) ==
    LET res == Compute(r.serverIndex, r.from, r.to)
        called == [r EXCEPT !.engineCalls = @ + 1, !.result = res]
    IN IF res.kind = "threw"
       THEN [req |-> [called EXCEPT !.pc = "threw"], lines |-> 0]
       ELSE IF res.kind = "null"
       THEN [req |-> [called EXCEPT !.pc = "done", !.outcome = "NotFound"], lines |-> 1]
       ELSE [req |-> [called EXCEPT
                         !.outcome = "Found",
                         !.pc = IF viewer /\ \E i \in 1..Len(res.path) :
                                                res.path[i] \notin NODE_COORDS
                                THEN "threw" ELSE "done"],
             lines |-> 1]

\* Mutant: the route is computed first and discarded on a failure.
ContinueComputeFirst(r) ==
    IF r.willFail
    THEN [req |-> [Served(r).req EXCEPT !.pc = "done", !.outcome = "BackendFailure"],
          lines |-> 1]
    ELSE Served(r)

Continue(r) == IF r.willFail THEN Failed(r) ELSE Served(r)

Resume ==
    \E i \in 1..Len(requests) :
       /\ requests[i].pc = "delay"
       /\ LET c == Continue(requests[i]) IN
             /\ requests' = [requests EXCEPT ![i] = c.req]
             /\ logs' = IF c.lines = 1 THEN addLog(logs) ELSE logs
       /\ UNCHANGED <<fromNode, toNode, roundRobinState, simulateFailureRate,
                      rendered, viewer, rejected>>
       /\ UNCHANGED <<uiEvents, engineVars>>

Next ==
    \/ TypeFrom
    \/ TypeTo
    \/ Preset
    \/ MapClick
    \/ SetFailureRate
    \/ Clear
    \/ Render
    \/ SubmitRejected
    \/ Submit
    \/ Resume

Spec == Init /\ [][Next]_vars


\* ----------------------------------------------------------------- claims

Requests == {requests[i] : i \in 1..Len(requests)}

\* C1: no two submitRequest calls read the same value of the counter, so no
\* two calls get a backend index derived from the same counter value.
C1_NoDuplicateReads ==
    \A i, j \in 1..Len(requests) :
        i # j => requests[i].read # requests[j].read

\* How many of the first n requests were assigned backend index k.
RECURSIVE AssignedCount(_, _)
AssignedCount(k, n) ==
    IF n = 0 THEN 0
    ELSE AssignedCount(k, n - 1) + (IF requests[n].serverIndex = k THEN 1 ELSE 0)

\* C2: starting from counter 0, the i-th dispatched call (i = 0, 1, ...) is
\* assigned backend index i mod 3, every index is in 0..2, and each index is
\* assigned floor(N/3) or ceil(N/3) times.
C2_RoundRobinSequence ==
    LET N == Len(requests) IN
    /\ \A i \in 1..N :
          /\ requests[i].serverIndex = (i - 1) % BackendCount
          /\ requests[i].serverIndex \in 0..(BackendCount - 1)
    /\ \A k \in 0..(BackendCount - 1) :
          AssignedCount(k, N) \in
              {N \div BackendCount, (N + BackendCount - 1) \div BackendCount}

\* C3: the counter equals the number of submitRequest calls that passed the
\* endpoint check (it starts at 0), whatever their outcomes and however they
\* interleave, and no step decreases it.
C3_CounterCountsDispatches ==
    /\ [](roundRobinState = Len(requests))
    /\ [][roundRobinState' >= roundRobinState]_vars

\* Three calls were dispatched, two of them from the same render, one ended
\* in a simulated failure and one in an error, and the counter is 3.
C3_Witness ==
    /\ Len(requests) = 3
    /\ roundRobinState = 3
    /\ \E i, j \in 1..3 : i # j /\ requests[i].read = requests[j].read
    /\ \E r \in Requests : r.outcome = "BackendFailure"
    /\ \E r \in Requests : r.pc = "threw"

\* C4: a submitRequest call with an absent endpoint (empty or null) is
\* rejected before dispatch: the step leaves the counter and every request
\* as they were (no backend chosen, no delay, no draw, no engine call), and
\* no dispatched request has an absent endpoint.
C4_RejectedBeforeDispatch ==
    /\ [](\A r \in Requests : ~Falsy(r.from) /\ ~Falsy(r.to))
    /\ [][rejected' # rejected =>
            /\ MissingEndpoint(rendered.fromNode, rendered.toNode)
            /\ roundRobinState' = roundRobinState
            /\ requests' = requests]_vars

\* A call was rejected while an earlier call was suspended in its delay.
C4_Witness ==
    /\ rejected > 0
    /\ roundRobinState = 1
    /\ \E r \in Requests : r.pc = "delay"

\* C5: a call whose failure draw is below the failure rate ends in
\* BackendFailure without invoking dijkstra (and invokes nothing before its
\* delay has run out); a call whose draw is not below the rate invokes it.
\* A rate of 1.0 (RateScale) lies above every draw.
C5_FailureSkipsEngine ==
    /\ \A r \in Requests :
          /\ r.draw < RateScale
          /\ r.pc = "delay" => r.engineCalls = 0 /\ r.outcome = "none"
          /\ (r.draw < r.rate /\ r.pc # "delay") =>
                r.pc = "done" /\ r.outcome = "BackendFailure" /\ r.engineCalls = 0
          /\ (~(r.draw < r.rate) /\ r.pc # "delay") =>
                r.outcome # "BackendFailure" /\ r.engineCalls = 1

\* One call has ended in BackendFailure and another has been served.
C5_Witness ==
    /\ \E r \in Requests :
          r.draw < r.rate /\ r.pc = "done" /\ r.outcome = "BackendFailure"
    /\ \E r \in Requests : r.engineCalls = 1 /\ r.outcome = "Found"

\* ------------------------------------------------- claims about dijkstra

\* The least number of a non-empty set of numbers.
Least(S) == CHOOSE x \in S : \A y \in S : x <= y

\* The edges of g as <<from, to, cost>>, parallel edges of equal cost merged.
EdgesOf(g) ==
    UNION {{<<u, g[u][i].to, g[u][i].cost>> : i \in 1..Len(g[u])} : u \in DOMAIN g}

\* Least costs are kept as a set of <<node, cost>> pairs, one for each node
\* that can be reached.
CostOf(p, v) == IF \E x \in p : x[1] = v THEN (CHOOSE x \in p : x[1] = v)[2] ELSE Infinity

\* One round of relaxing every edge: from the least costs with at most k
\* edges, the least costs with at most k + 1 edges.
RelaxAll(g, p) ==
    LET edges == EdgesOf(g)
        reach == p \cup {<<e[2], CostOf(p, e[1]) + e[3]>> :
                            e \in {e \in edges : CostOf(p, e[1]) # Infinity}}
    IN {<<v, Least({x[2] : x \in {y \in reach : y[1] = v}})>> : v \in {x[1] : x \in reach}}

\* For the nodes reached from s by a directed path with at most k edges,
\* the least cost of such a path.
RECURSIVE CostWithin(_, _, _)
CostWithin(g, s, k) ==
    IF k = 0 THEN {<<s, 0>>}
    ELSE RelaxAll(g, CostWithin(g, s, k - 1))

\* The least total cost over all directed paths from s to t (a shortest path
\* repeats no node), Infinity when t cannot be reached.
MinCost(g, s, t) == CostOf(CostWithin(g, s, Cardinality(DOMAIN g) - 1), t)

Returned == at = "returned"
InGraph(n) == n \in DOMAIN graph

\* C6: on a graph with non-negative costs, for src and dst nodes of the graph
\* with dst reachable from src, dijkstra returns Found with the least total
\* cost over all directed paths from src to dst.
C6_DistanceIsMinimal ==
    (Returned /\ InGraph(src) /\ InGraph(dst) /\ MinCost(graph, src, dst) # Infinity)
        => /\ result.kind = "found"
           /\ result.distance = MinCost(graph, src, dst)

\* dijkstra returned a distance below the cost of a direct edge src -> dst.
C6_Witness ==
    /\ Returned /\ InGraph(src) /\ InGraph(dst) /\ src # dst
    /\ result.kind = "found"
    /\ \E i \in 1..Len(graph[src]) :
          graph[src][i].to = dst /\ graph[src][i].cost > result.distance

\* The total costs obtainable by choosing one edge for each consecutive pair
\* of path from position i on.
RECURSIVE PathCosts(_, _, _)
PathCosts(g, path, i) ==
    IF i >= Len(path) THEN {0}
    ELSE IF path[i] \notin DOMAIN g THEN {}
    ELSE {g[path[i]][k].cost + rest :
             k \in {k \in 1..Len(g[path[i]]) : g[path[i]][k].to = path[i + 1]},
             rest \in PathCosts(g, path, i + 1)}

\* C7: whenever dijkstra returns Found(path, distance), path starts with src,
\* ends with dst, follows edges of the graph, repeats no node, and the costs
\* of the edges chosen along it sum to distance; on the Server 1 graph
\* dijkstra(A, G) returns [A, C, F, G] with distance 6.
C7_PathIsARoute ==
    /\ (Returned /\ result.kind = "found") =>
          LET path == result.path IN
          /\ Len(path) >= 1
          /\ path[1] = src
          /\ path[Len(path)] = dst
          /\ \A i, j \in 1..Len(path) : i # j => path[i] # path[j]
          /\ result.distance \in PathCosts(graph, path, 1)
    /\ (Returned /\ graph = REGIONAL_GRAPHS[1] /\ src = "A" /\ dst = "G") =>
          result = [kind |-> "found", path |-> <<"A", "C", "F", "G">>, distance |-> 6]

\* C8: for distinct nodes src, dst of the graph with no directed path from
\* src to dst, dijkstra returns null and dist[dst] is still Infinity; and it
\* returns null in no other case.
C8_NullIffUnreachable ==
    Returned =>
        LET unreachable == /\ InGraph(src) /\ InGraph(dst) /\ src # dst
                           /\ MinCost(graph, src, dst) = Infinity
        IN /\ unreachable => result.kind = "null" /\ dist[dst] = Infinity
           /\ result.kind = "null" => unreachable

\* Scenario 2: on the Server 3 graph dijkstra(A, B) has returned null.
C8_Witness ==
    /\ Returned
    /\ graph = REGIONAL_GRAPHS[3] /\ src = "A" /\ dst = "B"
    /\ result.kind = "null"

\* C9: dijkstra with src or dst that is no key of the graph fails: it returns
\* neither Found nor null.
C9_UnknownNodeFails ==
    (Returned /\ (~InGraph(src) \/ ~InGraph(dst))) => result.kind = "threw"

\* C10: for every node s of the graph dijkstra(s, s) returns Found([s], 0),
\* whatever edges leave s.
C10_SameNode ==
    (Returned /\ src = dst /\ InGraph(src))
        => result = [kind |-> "found", path |-> <<src>>, distance |-> 0]

\* dijkstra(s, s) has returned for a node s with a zero-cost self-loop.
C10_Witness ==
    /\ Returned /\ src = dst /\ InGraph(src)
    /\ \E i \in 1..Len(graph[src]) : graph[src][i].to = src /\ graph[src][i].cost = 0
    /\ result.kind = "found"

\* --------------------------------------------- claims about submitRequest

\* C11: every dispatched submitRequest call that has run to its end has
\* reported an outcome (route found, no route, simulated failure or a
\* reported error), whatever FROM and TO ids it carries: no call ends
\* without one.
C11_OutcomeReported ==
    \A r \in Requests : r.pc # "delay" => r.outcome # "none"

\* C12: within a call the failure draw comes after the delay: whether the
\* call ends in BackendFailure is decided by its draw against the failure
\* rate in force when its delay has elapsed (the rate a call starting at
\* that moment reads), and dijkstra is invoked exactly when that draw does
\* not fail.
C12_DrawAfterDelay ==
    [][\A i \in 1..Len(requests) :
          (requests[i].pc = "delay" /\ requests'[i].pc # "delay") =>
              /\ (requests'[i].outcome = "BackendFailure")
                    <=> WillFail(requests[i].draw, rendered.simulateFailureRate)
              /\ (requests'[i].engineCalls = 1)
                    <=> ~WillFail(requests[i].draw, rendered.simulateFailureRate)]_vars

\* C13: a call has no outcome and has invoked nothing while it is suspended
\* in its delay; every dispatched call, failing or not, starts suspended;
\* an outcome appears only in the step that ends the delay.
C13_NoOutcomeBeforeDelay ==
    /\ [](\A r \in Requests :
             r.pc = "delay" => r.outcome = "none" /\ r.engineCalls = 0)
    /\ [][Len(requests') > Len(requests) =>
             /\ requests'[Len(requests')].pc = "delay"
             /\ requests'[Len(requests')].outcome = "none"]_vars
    /\ [][\A i \in 1..Len(requests) :
             requests'[i].outcome # requests[i].outcome =>
                 requests[i].pc = "delay" /\ requests'[i].pc # "delay"]_vars

\* A call is suspended in its delay while a failing call that started later
\* has chosen its backend and is suspended too, and a third, started last,
\* has ended in BackendFailure.
C13_Witness ==
    /\ Len(requests) = 3
    /\ requests[1].pc = "delay" /\ ~requests[1].willFail
    /\ requests[2].pc = "delay" /\ requests[2].willFail
    /\ requests[3].outcome = "BackendFailure"

\* C14: the Clear button leaves the counter as it is (and with it the
\* backend the next call will read), so the counter still equals the number
\* of calls dispatched since startup and the sequence goes on across a
\* Clear.
C14_ClearKeepsCounter ==
    /\ [][Clear => /\ roundRobinState' = roundRobinState
                   /\ ServerIndex(rendered.roundRobinState)'
                         = ServerIndex(rendered.roundRobinState)
                   /\ requests' = requests]_vars
    /\ [](roundRobinState = Len(requests)
            /\ \A i \in 1..Len(requests) : requests[i].read <= i - 1)

\* A call was dispatched and reported its outcome, the log was cleared, and
\* a second call read counter 1 and went to Server 2.
C14_Witness ==
    /\ Len(requests) = 2
    /\ requests[1].outcome # "none"
    /\ logs = 2
    /\ requests[2].read = 1 /\ requests[2].serverIndex = 1
    /\ roundRobinState = 2

\* C15: no retries inside a call: its backend is selected once and never
\* changes, dijkstra is invoked at most once, a call that has ended is never
\* changed again, BackendFailure ends the call without an engine invocation,
\* and the counter advances only when a new call is dispatched.
C15_NoRetries ==
    /\ [](\A r \in Requests :
             /\ r.engineCalls <= 1
             /\ r.serverIndex = ServerIndex(r.read)
             /\ r.outcome = "BackendFailure" => r.pc = "done" /\ r.engineCalls = 0)
    /\ [][\A i \in 1..Len(requests) :
             /\ requests'[i].serverIndex = requests[i].serverIndex
             /\ requests[i].pc # "delay" => requests'[i] = requests[i]]_vars
    /\ [][roundRobinState' # roundRobinState =>
             Len(requests') = Len(requests) + 1]_vars

\* A call ended in BackendFailure and a new call, which read the advanced
\* counter, went to the next server and found the route.
C15_Witness ==
    /\ Len(requests) >= 2
    /\ requests[1].outcome = "BackendFailure" /\ requests[1].serverIndex = 0
    /\ requests[2].read = 1 /\ requests[2].serverIndex = 1
    /\ requests[2].outcome = "Found" /\ requests[2].from = requests[1].from
    /\ requests[2].to = requests[1].to

\* ------------------------------------- claims about the steps of dijkstra

\* C16: the graphs are read-only: no step of dijkstra changes the graph it
\* was given (nor its arguments, nor the counter), so a regional graph still
\* has its startup value when the call has returned.
C16_GraphsReadOnly ==
    /\ [][/\ graph' = graph
          /\ src' = src /\ dst' = dst
          /\ roundRobinState' = roundRobinState]_vars
    /\ []((\E i \in 1..BackendCount : graph = REGIONAL_GRAPHS[i])
             \/ DOMAIN graph = GenNodes)

\* dijkstra has relaxed the edges of several nodes of the Server 1 graph and
\* returned a route; the graph is the Server 1 graph still.
C16_Witness ==
    /\ Returned
    /\ graph = REGIONAL_GRAPHS[1]
    /\ result.kind = "found"
    /\ Cardinality({i \in 1..Len(pops) : pops[i].branch = "relax"}) >= 3

\* The top of the queue is an entry (d, u) with d > dist[u].
StaleOnTop ==
    /\ at = "loop" /\ Len(pq) > 0
    /\ NumGT(pq[1][1], Get(dist, pq[1][2], Undefined))

\* C17: a popped entry (d, u) with d > dist[u] is discarded: the step only
\* removes it from the queue (dist and prev stay, nothing is pushed, the
\* loop goes on); and the edges of no node are relaxed twice in one call.
C17_StaleDiscarded ==
    /\ [][StaleOnTop =>
             /\ dist' = dist /\ prev' = prev
             /\ pq' = HeapPopRest(pq)
             /\ at' = "loop"
             /\ pops'[Len(pops')].branch = "stale"]_vars
    /\ [](\A i, j \in 1..Len(pops) :
             (i # j /\ pops[i].branch = "relax" /\ pops[j].branch = "relax")
                 => pops[i].u # pops[j].u)

\* A call has returned after it popped a stale entry of a node whose edges
\* it had relaxed before.
C17_Witness ==
    /\ Returned
    /\ \E i, j \in 1..Len(pops) :
          /\ i < j
          /\ pops[i].branch = "relax" /\ pops[j].branch = "stale"
          /\ pops[i].u = pops[j].u /\ pops[i].d < pops[j].d

\* The top of the queue is an entry (d, dst) that is not stale.
DstOnTop ==
    /\ at = "loop" /\ Len(pq) > 0
    /\ ~NumGT(pq[1][1], Get(dist, pq[1][2], Undefined))
    /\ pq[1][2] = dst

\* C18: when an entry of dst that is not stale is popped the loop ends in
\* that step, relaxing nothing; after it nothing is popped or relaxed, even
\* if the queue holds entries, and the distance returned is dist[dst] as it
\* was at that moment.
C18_EarlyExit ==
    /\ [][DstOnTop =>
             /\ at' = "reached"
             /\ dist' = dist /\ prev' = prev
             /\ pq' = HeapPopRest(pq)]_vars
    /\ [][at = "reached" =>
             /\ at' = "returned"
             /\ pops' = pops /\ pq' = pq /\ dist' = dist /\ prev' = prev
             /\ result'.kind = "found"
             /\ result'.distance = Get(dist, dst, Undefined)]_vars
    /\ [](\A i \in 1..Len(pops) : pops[i].branch = "reached" => i = Len(pops))

\* dijkstra has returned a route to a dst other than src while entries were
\* still waiting in the queue.
C18_Witness ==
    /\ Returned
    /\ src # dst
    /\ result.kind = "found"
    /\ Len(pq) > 0
    /\ pops[Len(pops)].branch = "reached"

\* C19: a call is bound to the values it took when it started: its FROM, TO
\* and backend index are those of the render it was started from and never
\* change, and the route it reports is dijkstra on the graph of that backend
\* for that pair, whatever happens while it is suspended.
C19_BoundToStartValues ==
    /\ [][Len(requests') > Len(requests) =>
             LET r == requests'[Len(requests')] IN
             /\ r.from = rendered.fromNode /\ r.to = rendered.toNode
             /\ r.serverIndex = ServerIndex(rendered.roundRobinState)]_vars
    /\ [][\A i \in 1..Len(requests) :
             /\ requests'[i].from = requests[i].from
             /\ requests'[i].to = requests[i].to
             /\ requests'[i].serverIndex = requests[i].serverIndex
             /\ (requests[i].pc = "delay" /\ requests'[i].engineCalls = 1) =>
                   requests'[i].result =
                       Compute(requests[i].serverIndex,
                               requests[i].from, requests[i].to)]_vars
    /\ [](\A r \in Requests :
             /\ r.outcome = "Found" => r.result.kind = "found"
             /\ r.outcome = "NotFound" => r.result.kind = "null")

\* The first call reported the route A -> G of Server 1 although TO has been
\* changed to B and a second call, for A -> B on Server 2, has been started.
C19_Witness ==
    /\ Len(requests) >= 2
    /\ requests[1].outcome = "Found"
    /\ requests[1].serverIndex = 0
    /\ requests[1].result.path = <<"A", "C", "F", "G">>
    /\ requests[2].to = "B" /\ requests[2].serverIndex = 1
    /\ requests[2].pc = "delay"
    /\ roundRobinState = 2

\* ------------------------------------------------------ claims about MinHeap

\* How many times entry e occurs in the array.
CountIn(seq, e) == Cardinality({i \in 1..Len(seq) : seq[i] = e})

\* C20: after any pushes and pops the heap holds exactly the entries pushed
\* and not yet popped; a pop of a heap that holds entries returns one of
\* them whose priority is least and removes just that one; pop returns null
\* exactly when the heap holds no entry.
C20_PopReturnsMinimum ==
    /\ [](\A e \in HeapItems : CountIn(minHeap, e) = HeldCount(held, e))
    /\ [][Len(minHeap') < Len(minHeap) =>
             /\ top' \in HeapItems /\ HeldCount(held, top') > 0
             /\ \A e \in HeapItems : HeldCount(held, e) > 0 => top'[1] <= e[1]
             /\ Len(minHeap') = Len(minHeap) - 1
             /\ \A e \in HeapItems :
                   CountIn(minHeap', e) = CountIn(minHeap, e) - (IF e = top' THEN 1 ELSE 0)]_vars
    /\ [][(top' # top /\ top' = NoEntry) => Len(minHeap) = 0 /\ minHeap' = minHeap]_vars
    /\ [][(Len(minHeap) = 0 /\ Len(minHeap') = 0) => top' = NoEntry]_vars

\* A pop has returned an entry of priority 0 from a heap that still holds
\* three entries, of priorities 1 and 2, two of them equal.
C20_Witness ==
    /\ top \in HeapItems /\ top[1] = 0
    /\ Len(minHeap) = 3
    /\ minHeap[1][1] = 1
    /\ \E i \in 1..Len(minHeap) : minHeap[i][1] = 2
    /\ \E i, j \in 1..Len(minHeap) : i # j /\ minHeap[i] = minHeap[j]

====
